---- MODULE Spec2Model ----
(***************************************************************************)
(* Model of the building-detection backend (src/main.py) and of the CSV    *)
(* relabeling script (src/ext.py).                                        *)
(*                                                                         *)
(* main.py: the module body runs once at import time (Startup) and then    *)
(* the four FastAPI handlers serve requests.  Every call into the Earth    *)
(* Engine SDK, the storage SDK, PIL or the fastai learner is an external   *)
(* call whose outcome (success, or an exception of some class carrying     *)
(* some message, raised at some stage) is chosen nondeterministically.     *)
(*                                                                         *)
(* ext.py: a straight-line script; each statement is one step.             *)
(***************************************************************************)
EXTENDS Integers, Sequences, FiniteSets, TLC

VARIABLES
    pc,              \* "boot" | "running" | "crashed" : the import of main.py
    env,             \* the environment main.py reads with os.getenv / os.path.exists
    ee_ok,           \* "unset" | "ok" | "failed" : outcome of ee.Authenticate/ee.Initialize
    storage_client,  \* "unset" | "Client" | "None" : module-level storage_client
    learn,           \* "unset" | "Learner" | "None" : module-level learn
    req,             \* the request being answered (last request)
    ext,             \* what the external calls of that request did
    resp,            \* the HTTP response to that request
    eff,             \* side effects of that request
    served,          \* number of requests answered so far
    tasks,           \* export tasks started on the platform so far
    epc,             \* position of ext.py
    df,              \* ext.py: the data frame, a function 0..n-1 -> row
    cols,            \* ext.py: which of the columns confidence/color the frame has
    n,               \* ext.py: n
    red_n,           \* ext.py: red_n
    yellow_n,        \* ext.py: yellow_n
    green_n,         \* ext.py: green_n
    out              \* ext.py: the rows of data_modified.csv, written when epc = "saved"

svars == <<pc, env, ee_ok, storage_client, learn, req, ext, resp, eff, served, tasks>>
evars == <<epc, df, cols, n, red_n, yellow_n, green_n, out>>
vars == <<pc, env, ee_ok, storage_client, learn, req, ext, resp, eff, served, tasks,
          epc, df, cols, n, red_n, yellow_n, green_n, out>>

\* ------------------------------------------------------------------ bounds
MaxRequests == 2
MaxRows == 21

\* ------------------------------------------------------------ main.py data
\* A JSON field as Python sees it after dict.get: None ("absent"), a falsy
\* value ("empty": {}), a truthy value.  An AOI can be a truthy dict without
\* the key 'coordinates' ("nocoords").  A date is None or a non-empty string.
AoiValues == {"absent", "empty", "nocoords", "ok"}
DateValues == {"absent", "ok"}
Files == {"image", "garbage"}
Msgs == {"m1", "m2"}
ExcKinds == {"EEException", "Exception"}

NoReq == [endpoint |-> "none", aoi |-> "n/a", start |-> "n/a", end |-> "n/a", file |-> "n/a"]
NoExt == [failAt |-> "none", kind |-> "none", msg |-> "none"]
NoResp == [status |-> 0, how |-> "none", prefix |-> "", msg |-> "", body |-> "none"]
NoEff == [created |-> 0, started |-> 0, fileRead |-> FALSE, modelCalled |-> FALSE]

ExtOutcomes(stages) ==
    {NoExt} \cup [failAt : stages, kind : ExcKinds, msg : Msgs]

\* Python truthiness of a request field: `not x`.
Falsy(v) == v \in {"absent", "empty"}

Json(body) == [status |-> 200, how |-> "json", prefix |-> "", msg |-> "", body |-> body]
HTTPException(status, prefix, msg) ==
    [status |-> status, how |-> "http_exception", prefix |-> prefix, msg |-> msg, body |-> "detail"]
\* An exception that leaves a handler is answered by the framework.
Unhandled(msg) ==
    [status |-> 500, how |-> "unhandled", prefix |-> "", msg |-> msg, body |-> "Internal Server Error"]

\* ------------------------------------------------------- main.py: startup
\* Variant: only the variable is tested, not the file it names.
KeyPathMissingNoFileTest(e) == ~e.keySet

\* line 22: the guard in front of `raise ValueError`.
KeyPathMissing(e) == ~e.keySet \/ ~e.keyFile

\* lines 25-31: try/except around ee.Authenticate and ee.Initialize.
EeAfterStartup(eeOk) == IF eeOk THEN "ok" ELSE "failed"

\* lines 34-44: storage_client after the module body.
StorageClientAfterStartup(e, clientOk) ==
    IF e.bucketSet
    THEN IF clientOk THEN "Client" ELSE "None"
    ELSE "None"

\* lines 66-72: learn after the module body.
LearnAfterStartup(modelOk) == IF modelOk THEN "Learner" ELSE "None"

\* ------------------------------------------------------ main.py: handlers
\* Variant: the liveness payload reports the model's state.
rootReportsModel ==
    IF learn = "None"
    THEN HTTPException(503, "", "model not loaded")
    ELSE Json("running")

\* lines 76-78
root == Json("running")

\* Variant: only ee.EEException is caught.
MapLayerCatchOnlyEE(kind, msg) ==
    IF kind = "EEException"
    THEN HTTPException(500, "Earth Engine error: ", msg)
    ELSE Unhandled(msg)

\* lines 116-119: the two except clauses of get_gee_map_layer.
MapLayerCatch(kind, msg) ==
    IF kind = "EEException"
    THEN HTTPException(500, "Earth Engine error: ", msg)
    ELSE HTTPException(500, "Server error: ", msg)

\* lines 80-119.  The try block evaluates, in order: ImageCollection and
\* filterDate (stage "filter"), aoi_geojson['coordinates'] (TypeError on
\* None, KeyError on a dict without the key), Polygon .. visualize (stage
\* "image"), the two getMapId calls (stage "mapid").
get_gee_map_layer(r, x) ==
    IF x.failAt = "filter" THEN MapLayerCatch(x.kind, x.msg)
    ELSE IF r.aoi = "absent" THEN MapLayerCatch("Exception", "TypeError")
    ELSE IF r.aoi \in {"empty", "nocoords"} THEN MapLayerCatch("Exception", "KeyError")
    ELSE IF x.failAt \in {"image", "mapid"} THEN MapLayerCatch(x.kind, x.msg)
    ELSE Json("mapids")

\* lines 166-169: the two except clauses of export_gee_image.
ExportCatch(kind, msg) ==
    IF kind = "EEException"
    THEN HTTPException(500, "Earth Engine export error: ", msg)
    ELSE HTTPException(500, "Server error during export: ", msg)

Answer(response, created, started) ==
    [resp |-> response, created |-> created, started |-> started]

\* Variant: the date guard of line 135 is missing.
exportWithoutDateGuard(sc, r, x) ==
    IF sc = "None"
    THEN Answer(HTTPException(503, "", "Google Cloud Storage client not initialized. Cannot export."), 0, 0)
    ELSE IF Falsy(r.aoi)
    THEN Answer(HTTPException(400, "", "AOI GeoJSON is required for export."), 0, 0)
    ELSE IF x.failAt = "filter" THEN Answer(ExportCatch(x.kind, x.msg), 0, 0)
    ELSE IF r.aoi = "nocoords" THEN Answer(ExportCatch("Exception", "KeyError"), 0, 0)
    ELSE IF x.failAt \in {"image", "create"} THEN Answer(ExportCatch(x.kind, x.msg), 0, 0)
    ELSE IF x.failAt = "start" THEN Answer(ExportCatch(x.kind, x.msg), 1, 0)
    ELSE Answer(Json("task_id"), 1, 1)

\* Variant: the storage-client guard of line 123 comes after the field guards.
exportClientGuardLast(sc, r, x) ==
    IF Falsy(r.aoi)
    THEN Answer(HTTPException(400, "", "AOI GeoJSON is required for export."), 0, 0)
    ELSE IF ~(~Falsy(r.start) /\ ~Falsy(r.end))
    THEN Answer(HTTPException(400, "", "Start and end dates are required."), 0, 0)
    ELSE IF sc = "None"
    THEN Answer(HTTPException(503, "", "Google Cloud Storage client not initialized. Cannot export."), 0, 0)
    ELSE IF x.failAt = "filter" THEN Answer(ExportCatch(x.kind, x.msg), 0, 0)
    ELSE IF r.aoi = "nocoords" THEN Answer(ExportCatch("Exception", "KeyError"), 0, 0)
    ELSE IF x.failAt \in {"image", "create"} THEN Answer(ExportCatch(x.kind, x.msg), 0, 0)
    ELSE IF x.failAt = "start" THEN Answer(ExportCatch(x.kind, x.msg), 1, 0)
    ELSE Answer(Json("task_id"), 1, 1)

\* Variant: the field guards of lines 133-136 sit inside the try block,
\* after the export task has been created and started.
exportGuardsAfterStart(sc, r, x) ==
    IF sc = "None"
    THEN Answer(HTTPException(503, "", "Google Cloud Storage client not initialized. Cannot export."), 0, 0)
    ELSE IF x.failAt = "filter" THEN Answer(ExportCatch(x.kind, x.msg), 0, 0)
    ELSE IF r.aoi \in {"absent", "empty", "nocoords"} THEN Answer(ExportCatch("Exception", "KeyError"), 0, 0)
    ELSE IF x.failAt \in {"image", "create"} THEN Answer(ExportCatch(x.kind, x.msg), 0, 0)
    ELSE IF x.failAt = "start" THEN Answer(ExportCatch(x.kind, x.msg), 1, 0)
    ELSE IF ~(~Falsy(r.start) /\ ~Falsy(r.end))
    THEN Answer(HTTPException(400, "", "Start and end dates are required."), 1, 1)
    ELSE Answer(Json("task_id"), 1, 1)

\* lines 121-169.  Guards first (123, 133, 135), then the try block:
\* ImageCollection/filterDate ("filter"), aoi_geojson['coordinates'],
\* image algebra and Polygon ("image"), Export.image.toCloudStorage
\* ("create"), task.start() ("start"), the return that reads task.id.
export_gee_image(sc, r, x) ==
    IF sc = "None"
    THEN Answer(HTTPException(503, "", "Google Cloud Storage client not initialized. Cannot export."), 0, 0)
    ELSE IF Falsy(r.aoi)
    THEN Answer(HTTPException(400, "", "AOI GeoJSON is required for export."), 0, 0)
    ELSE IF ~(~Falsy(r.start) /\ ~Falsy(r.end))
    THEN Answer(HTTPException(400, "", "Start and end dates are required."), 0, 0)
    ELSE IF x.failAt = "filter" THEN Answer(ExportCatch(x.kind, x.msg), 0, 0)
    ELSE IF r.aoi = "nocoords" THEN Answer(ExportCatch("Exception", "KeyError"), 0, 0)
    ELSE IF x.failAt \in {"image", "create"} THEN Answer(ExportCatch(x.kind, x.msg), 0, 0)
    ELSE IF x.failAt = "start" THEN Answer(ExportCatch(x.kind, x.msg), 1, 0)
    ELSE Answer(Json("task_id"), 1, 1)

Predicted(response, fileRead, modelCalled) ==
    [resp |-> response, fileRead |-> fileRead, modelCalled |-> modelCalled]

\* Variant: the `learn is None` guard of line 174 is missing, so the call
\* on None fails after the upload has been read and decoded.
predictUnguarded(l, r, x) ==
    IF x.failAt = "read" THEN Predicted(Unhandled(x.msg), FALSE, FALSE)
    ELSE IF r.file = "garbage" THEN Predicted(Unhandled("UnidentifiedImageError"), TRUE, FALSE)
    ELSE IF x.failAt = "decode" THEN Predicted(Unhandled(x.msg), TRUE, FALSE)
    ELSE IF l = "None" THEN Predicted(Unhandled("AttributeError"), TRUE, FALSE)
    ELSE IF x.failAt = "predict" THEN Predicted(Unhandled(x.msg), TRUE, TRUE)
    ELSE Predicted(Json("prediction"), TRUE, TRUE)

\* lines 172-186.  No try block: an exception from file.read ("read"),
\* PILImage.create / resize ("decode", always for bytes that are no image)
\* or learn.predict ("predict") leaves the handler.
predict(l, r, x) ==
    IF l = "None"
    THEN Predicted(HTTPException(500, "", "FastAI model not loaded."), FALSE, FALSE)
    ELSE IF x.failAt = "read" THEN Predicted(Unhandled(x.msg), FALSE, FALSE)
    ELSE IF r.file = "garbage" THEN Predicted(Unhandled("UnidentifiedImageError"), TRUE, FALSE)
    ELSE IF x.failAt = "decode" THEN Predicted(Unhandled(x.msg), TRUE, FALSE)
    ELSE IF x.failAt = "predict" THEN Predicted(Unhandled(x.msg), TRUE, TRUE)
    ELSE Predicted(Json("prediction"), TRUE, TRUE)

\* ------------------------------------------------------- main.py: actions
Envs == [keySet : BOOLEAN, keyFile : BOOLEAN, bucketSet : BOOLEAN]

MapStages == {"filter", "image", "mapid"}
ExportStages == {"filter", "image", "create", "start"}
PredictStages == {"read", "decode", "predict"}

GeeBodies(endpoint) ==
    [endpoint : {endpoint}, aoi : AoiValues, start : DateValues, end : DateValues, file : {"n/a"}]
Uploads ==
    [endpoint : {"predict"}, aoi : {"n/a"}, start : {"n/a"}, end : {"n/a"}, file : Files]
RootReq == [endpoint |-> "root", aoi |-> "n/a", start |-> "n/a", end |-> "n/a", file |-> "n/a"]

InitService ==
    /\ pc = "boot"
    /\ env \in Envs
    /\ ee_ok = "unset"
    /\ storage_client = "unset"
    /\ learn = "unset"
    /\ req = NoReq
    /\ ext = NoExt
    /\ resp = NoResp
    /\ eff = NoEff
    /\ served = 0
    /\ tasks = 0

\* lines 14-72: the module body, run once when the server imports main.py.
Startup ==
    /\ pc = "boot"
    /\ IF KeyPathMissing(env)
       THEN /\ pc' = "crashed"
            /\ UNCHANGED <<ee_ok, storage_client, learn>>
       ELSE \E eeOk \in BOOLEAN, clientOk \in BOOLEAN, modelOk \in BOOLEAN :
                /\ pc' = "running"
                /\ ee_ok' = EeAfterStartup(eeOk)
                /\ storage_client' = StorageClientAfterStartup(env, clientOk)
                /\ learn' = LearnAfterStartup(modelOk)
    /\ UNCHANGED <<env, req, ext, resp, eff, served, tasks>>
    /\ UNCHANGED evars

\* lines 76-78
Root ==
    /\ pc = "running"
    /\ served < MaxRequests
    /\ req' = RootReq
    /\ ext' = NoExt
    /\ resp' = root
    /\ eff' = NoEff
    /\ served' = served + 1
    /\ UNCHANGED <<pc, env, ee_ok, storage_client, learn, tasks>>
    /\ UNCHANGED evars

\* lines 80-119
GetGeeMapLayer ==
    /\ pc = "running"
    /\ served < MaxRequests
    /\ \E r \in GeeBodies("map"), x \in ExtOutcomes(MapStages) :
          /\ req' = r
          /\ ext' = x
          /\ resp' = get_gee_map_layer(r, x)
    /\ eff' = NoEff
    /\ served' = served + 1
    /\ UNCHANGED <<pc, env, ee_ok, storage_client, learn, tasks>>
    /\ UNCHANGED evars

\* lines 121-169
ExportGeeImage ==
    /\ pc = "running"
    /\ served < MaxRequests
    /\ \E r \in GeeBodies("export"), x \in ExtOutcomes(ExportStages) :
          LET a == export_gee_image(storage_client, r, x) IN
          /\ req' = r
          /\ ext' = x
          /\ resp' = a.resp
          /\ eff' = [NoEff EXCEPT !.created = a.created, !.started = a.started]
          /\ tasks' = tasks + a.started
    /\ served' = served + 1
    /\ UNCHANGED <<pc, env, ee_ok, storage_client, learn>>
    /\ UNCHANGED evars

\* Variant: a failed prediction drops the model handle.
PredictDropsModel ==
    /\ pc = "running"
    /\ served < MaxRequests
    /\ \E r \in Uploads, x \in ExtOutcomes(PredictStages) :
          LET a == predict(learn, r, x) IN
          /\ req' = r
          /\ ext' = x
          /\ resp' = a.resp
          /\ eff' = [NoEff EXCEPT !.fileRead = a.fileRead, !.modelCalled = a.modelCalled]
          /\ learn' = IF a.resp.how = "unhandled" THEN "None" ELSE learn
    /\ served' = served + 1
    /\ UNCHANGED <<pc, env, ee_ok, storage_client, tasks>>
    /\ UNCHANGED evars

\* lines 172-186
Predict ==
    /\ pc = "running"
    /\ served < MaxRequests
    /\ \E r \in Uploads, x \in ExtOutcomes(PredictStages) :
          LET a == predict(learn, r, x) IN
          /\ req' = r
          /\ ext' = x
          /\ resp' = a.resp
          /\ eff' = [NoEff EXCEPT !.fileRead = a.fileRead, !.modelCalled = a.modelCalled]
    /\ served' = served + 1
    /\ UNCHANGED <<pc, env, ee_ok, storage_client, learn, tasks>>
    /\ UNCHANGED evars

\* ------------------------------------------------------------------ ext.py
\* lines 11-12: int(0.10 * n) and int(0.20 * n).  The doubles nearest 0.10
\* and 0.20 lie above 1/10 and 1/5 by less than 2^-56, so for every n below
\* 2^31 the rounded product is at least n/10 (n/5) and below the next
\* integer, and int() truncates it to the integer quotient.
IntOfPercent(pct, rows) == (pct * rows) \div 100

Row(id, confidence, color) == [id |-> id, confidence |-> confidence, color |-> color]

\* line 4: the frames pd.read_csv can return: any row count, with or
\* without columns named confidence and color already in the file.
FrameRead(rows, columns) ==
    [i \in 0 .. rows - 1 |->
        Row(i, IF "confidence" \in columns THEN "old" ELSE "absent",
               IF "color" \in columns THEN "old" ELSE "absent")]

\* line 7: sample(frac=1, random_state=42) permutes the rows (the seeded
\* permutation is represented by a rotation by k) and reset_index relabels
\* them 0..n-1.
Shuffled(frame, k) ==
    LET len == Cardinality(DOMAIN frame) IN
    [i \in DOMAIN frame |-> frame[(i + k) % len]]

\* lines 16-18: df.loc[a:b, 'confidence'] = v raises ValueError ("cannot set
\* a frame with no defined index and a scalar") when the column has to be
\* added to a frame without rows.
LocRaises(frame, columns) == "confidence" \notin columns /\ DOMAIN frame = {}

\* lines 16-18: df.loc[lo:hi, 'confidence'] = v.  .loc slices by label and
\* includes both ends; on the index 0..n-1 the rows lo <= label <= hi.  A
\* column that is not there yet is added holding NaN first.
LocAssign(frame, columns, lo, hi, v) ==
    [i \in DOMAIN frame |->
        IF lo <= i /\ i <= hi
        THEN [frame[i] EXCEPT !.confidence = v]
        ELSE IF "confidence" \in columns
             THEN frame[i]
             ELSE [frame[i] EXCEPT !.confidence = "NaN"]]

\* line 21: Series.map with the dict; a value that is no key maps to NaN.
ColorOf(confidence) ==
    CASE confidence = "1.0" -> "green"
      [] confidence = "0.5" -> "yellow"
      [] confidence = "0.0" -> "red"
      [] OTHER -> "NaN"

InitExt ==
    /\ epc = "start"
    /\ df = <<>>
    /\ cols = {}
    /\ n = 0
    /\ red_n = 0
    /\ yellow_n = 0
    /\ green_n = 0
    /\ out = <<>>

\* line 4
ReadCsv ==
    /\ epc = "start"
    /\ \E rows \in 0 .. MaxRows, columns \in SUBSET {"confidence", "color"} :
          /\ df' = FrameRead(rows, columns)
          /\ cols' = columns
    /\ epc' = "read"
    /\ UNCHANGED <<n, red_n, yellow_n, green_n, out>>
    /\ UNCHANGED svars

\* line 7
Shuffle ==
    /\ epc = "read"
    /\ IF DOMAIN df = {}
       THEN df' = df
       ELSE \E k \in DOMAIN df : df' = Shuffled(df, k)
    /\ epc' = "shuffled"
    /\ UNCHANGED <<cols, n, red_n, yellow_n, green_n, out>>
    /\ UNCHANGED svars

\* lines 10-13
ComputeCounts ==
    /\ epc = "shuffled"
    /\ n' = Cardinality(DOMAIN df)
    /\ red_n' = IntOfPercent(10, n')
    /\ yellow_n' = IntOfPercent(20, n')
    /\ green_n' = n' - red_n' - yellow_n'
    /\ epc' = "counted"
    /\ UNCHANGED <<df, cols, out>>
    /\ UNCHANGED svars

\* line 16: df.loc[:red_n-1, 'confidence'] = 0.0
AssignRed ==
    /\ epc = "counted"
    /\ IF LocRaises(df, cols)
       THEN /\ epc' = "failed"
            /\ UNCHANGED <<df, cols>>
       ELSE /\ df' = LocAssign(df, cols, 0, red_n - 1, "0.0")
            /\ cols' = cols \cup {"confidence"}
            /\ epc' = "red"
    /\ UNCHANGED <<n, red_n, yellow_n, green_n, out>>
    /\ UNCHANGED svars

\* line 17: df.loc[red_n:red_n+yellow_n-1, 'confidence'] = 0.5
AssignYellow ==
    /\ epc = "red"
    /\ IF LocRaises(df, cols)
       THEN /\ epc' = "failed"
            /\ UNCHANGED <<df, cols>>
       ELSE /\ df' = LocAssign(df, cols, red_n, red_n + yellow_n - 1, "0.5")
            /\ cols' = cols \cup {"confidence"}
            /\ epc' = "yellow"
    /\ UNCHANGED <<n, red_n, yellow_n, green_n, out>>
    /\ UNCHANGED svars

\* line 18: df.loc[red_n+yellow_n:, 'confidence'] = 1.0
AssignGreen ==
    /\ epc = "yellow"
    /\ IF LocRaises(df, cols)
       THEN /\ epc' = "failed"
            /\ UNCHANGED <<df, cols>>
       ELSE /\ df' = LocAssign(df, cols, red_n + yellow_n, Cardinality(DOMAIN df) - 1, "1.0")
            /\ cols' = cols \cup {"confidence"}
            /\ epc' = "green"
    /\ UNCHANGED <<n, red_n, yellow_n, green_n, out>>
    /\ UNCHANGED svars

\* line 21
MapColor ==
    /\ epc = "green"
    /\ df' = [i \in DOMAIN df |-> [df[i] EXCEPT !.color = ColorOf(df[i].confidence)]]
    /\ cols' = cols \cup {"color"}
    /\ epc' = "mapped"
    /\ UNCHANGED <<n, red_n, yellow_n, green_n, out>>
    /\ UNCHANGED svars

\* line 24
Save ==
    /\ epc = "mapped"
    /\ out' = df
    /\ epc' = "saved"
    /\ UNCHANGED <<df, cols, n, red_n, yellow_n, green_n>>
    /\ UNCHANGED svars

\* ---------------------------------------------------------- specifications
Init == InitService /\ InitExt

Next ==
    \/ Startup
    \/ Root
    \/ GetGeeMapLayer
    \/ ExportGeeImage
    \/ Predict

Spec == Init /\ [][Next]_vars

NextExt ==
    \/ ReadCsv
    \/ Shuffle
    \/ ComputeCounts
    \/ AssignRed
    \/ AssignYellow
    \/ AssignGreen
    \/ MapColor
    \/ Save

SpecExt == Init /\ [][NextExt]_vars

\* ------------------------------------------------------------- properties
\* The request body leaves out aoi_geojson, start_date or end_date.
Omits(r) == r.aoi = "absent" \/ r.start = "absent" \/ r.end = "absent"

\* C1: POST /get_gee_map_layer answers HTTP 400 whenever the body omits
\* aoi_geojson, start_date or end_date.
C1_MapLayerOmitted400 ==
    (req.endpoint = "map" /\ Omits(req)) => resp.status = 400

\* C2 as stated: POST /export_gee_image answers HTTP 400 whenever the body
\* omits aoi_geojson, start_date or end_date, in every startup state.
C2_ExportOmitted400Always ==
    (req.endpoint = "export" /\ Omits(req)) => resp.status = 400

\* C2 amended: with the storage client initialized, POST /export_gee_image
\* answers HTTP 400 whenever the body omits aoi_geojson, start_date or
\* end_date; without a storage client the answer to such a body is 503.
C2_ExportOmitted400 ==
    (req.endpoint = "export" /\ Omits(req)) =>
        /\ storage_client = "Client" => (resp.status = 400 /\ resp.how = "http_exception")
        /\ storage_client = "None" => resp.status = 503

C2_Witness ==
    /\ req.endpoint = "export"
    /\ storage_client = "Client"
    /\ req.aoi = "ok" /\ req.start = "ok" /\ req.end = "absent"
    /\ resp.status = 400

\* C3: POST /export_gee_image answers HTTP 503 for every body whenever the
\* storage client is absent, which is the case when GCS_EXPORT_BUCKET_NAME
\* was unset at startup.
C3_ExportNoClient503 ==
    /\ (pc = "running" /\ ~env.bucketSet) => storage_client = "None"
    /\ (req.endpoint = "export" /\ storage_client = "None") =>
          (resp.status = 503 /\ resp.how = "http_exception")

C3_Witness ==
    /\ req.endpoint = "export"
    /\ storage_client = "None"
    /\ env.bucketSet
    /\ req.aoi = "ok" /\ req.start = "ok" /\ req.end = "ok"
    /\ ext = NoExt
    /\ resp.status = 503

\* C4 as stated: a missing service-account key path or a missing export
\* bucket name keeps the service from ever serving requests.
C4_MissingConfigFatal ==
    (~env.keySet \/ ~env.keyFile \/ ~env.bucketSet) => pc # "running"

\* C4 amended: a missing service-account key path (variable unset or file
\* not found) is fatal: the import fails, no handle is assigned and no
\* request is served.  A missing bucket name is not fatal: the service
\* starts with no storage client.
C4_KeyPathFatal ==
    /\ (~env.keySet \/ ~env.keyFile) =>
          /\ pc # "running"
          /\ served = 0
          /\ storage_client = "unset" /\ learn = "unset"
    /\ pc = "crashed" => (~env.keySet \/ ~env.keyFile)
    /\ (pc = "running" /\ ~env.bucketSet) => storage_client = "None"

C4_Witness ==
    /\ pc = "crashed"
    /\ env.keySet /\ ~env.keyFile /\ env.bucketSet

\* C5: a model that fails to load does not crash the import (learn is None
\* and the service runs); from then on every POST /predict/ answers HTTP
\* 500 without reading the upload or calling the model.
C5_PredictDisabled ==
    /\ learn = "None" => pc = "running"
    /\ (req.endpoint = "predict" /\ learn = "None") =>
          /\ resp.status = 500
          /\ resp.how = "http_exception"
          /\ ~eff.fileRead
          /\ ~eff.modelCalled

C5_Witness ==
    /\ learn = "None"
    /\ served >= 2
    /\ tasks >= 1
    /\ req.endpoint = "predict"
    /\ req.file = "image"
    /\ resp.status = 500

\* C6: once the service has started, GET / answers HTTP 200 with the same
\* static payload whatever the startup outcomes and the earlier requests.
C6_RootAlways200 ==
    req.endpoint = "root" =>
        (resp.status = 200 /\ resp.how = "json" /\ resp.body = "running")

C6_Witness ==
    /\ req.endpoint = "root"
    /\ ee_ok = "failed" /\ storage_client = "None" /\ learn = "None"
    /\ served >= 2
    /\ resp.status = 200

\* The external platform raised during the request: one of its calls was
\* reached and failed.
PlatformRaised ==
    /\ ext.failAt # "none"
    /\ \/ req.endpoint = "map" /\ (ext.failAt = "filter" \/ req.aoi = "ok")
       \/ /\ req.endpoint = "export"
          /\ storage_client = "Client"
          /\ ~Falsy(req.aoi) /\ req.start = "ok" /\ req.end = "ok"
          /\ (ext.failAt = "filter" \/ req.aoi = "ok")

\* C7: in /get_gee_map_layer and /export_gee_image an error raised by the
\* platform is answered with HTTP 500 carrying the exception's message; no
\* exception leaves either handler, and without a storage client the export
\* answers 503.
C7_PlatformErrors500 ==
    req.endpoint \in {"map", "export"} =>
        /\ resp.how # "unhandled"
        /\ PlatformRaised =>
              /\ resp.status = 500
              /\ resp.how = "http_exception"
              /\ resp.prefix # ""
              /\ resp.msg = ext.msg
        /\ (req.endpoint = "export" /\ storage_client = "None") => resp.status = 503

C7_Witness ==
    /\ req.endpoint = "map"
    /\ req.aoi = "ok"
    /\ ext.failAt = "mapid" /\ ext.kind = "Exception" /\ ext.msg = "m2"
    /\ resp.status = 500 /\ resp.msg = "m2"

\* The response a handler gives to a request, from the request, the outcome
\* of its external calls and the two handles alone.
ResponseOf(r, x, sc, l) ==
    CASE r.endpoint = "root" -> root
      [] r.endpoint = "map" -> get_gee_map_layer(r, x)
      [] r.endpoint = "export" -> export_gee_image(sc, r, x).resp
      [] r.endpoint = "predict" -> predict(l, r, x).resp
      [] OTHER -> NoResp

\* C8: learn and storage_client are assigned during startup only; every
\* request handler leaves both as startup left them, and a response is a
\* function of the request, its external outcomes and the two handles.
C8_HandlesReadOnly ==
    [][/\ pc = "running" =>
            /\ storage_client' = storage_client
            /\ learn' = learn
            /\ resp' = ResponseOf(req', ext', storage_client, learn)
       /\ pc = "boot" => (storage_client = "unset" /\ learn = "unset")
       /\ pc' = "running" => (storage_client' # "unset" /\ learn' # "unset")]_vars

C8_Witness ==
    /\ served >= 2
    /\ storage_client = "Client" /\ learn = "Learner"
    /\ req.endpoint = "predict"
    /\ resp.how = "unhandled"
    /\ tasks >= 1

\* Rows of the written file with the given confidence and color.
Labelled(confidence, color) ==
    Cardinality({i \in DOMAIN out : out[i].confidence = confidence /\ out[i].color = color})

\* The written file holds the rows that were read, 10% (rounded down) red
\* at confidence 0.0, 20% (rounded down) yellow at 0.5, the rest green at
\* 1.0, and nothing else.
RelabelledAsSpecified ==
    LET rows == Cardinality(DOMAIN out) IN
    /\ rows = Cardinality(DOMAIN df)
    /\ {out[i].id : i \in DOMAIN out} = 0 .. rows - 1
    /\ Labelled("0.0", "red") = rows \div 10
    /\ Labelled("0.5", "yellow") = rows \div 5
    /\ Labelled("1.0", "green") = rows - (rows \div 10) - (rows \div 5)
    /\ \A i \in DOMAIN out :
          <<out[i].confidence, out[i].color>> \in
              {<<"0.0", "red">>, <<"0.5", "yellow">>, <<"1.0", "green">>}

\* C9: for every row count N, N = 0 and N < 10 included, the script writes
\* an output of N rows with floor(0.10 N) red at 0.0, floor(0.20 N) yellow
\* at 0.5 and the rest green at 1.0.
C9_RelabelEveryN ==
    /\ epc # "failed"
    /\ epc = "saved" => RelabelledAsSpecified

\* What the script does guarantee: whenever it writes its output, the
\* output is relabelled as specified, and it fails only on a frame without
\* rows that has no confidence column.
RelabelWhenWritten ==
    /\ epc = "saved" => RelabelledAsSpecified
    /\ epc = "failed" => (DOMAIN df = {} /\ "confidence" \notin cols)

\* C10: /export_gee_image checks storage client (503), then aoi_geojson
\* (400), then the dates (400), and only then reaches the platform: a
\* request answered 503 or 400 creates and starts no task, and a request
\* answered with a task_id has created and started exactly one.
C10_ExportGuardsBeforeTask ==
    req.endpoint = "export" =>
        /\ storage_client = "None" => resp.status = 503
        /\ (storage_client = "Client" /\ Falsy(req.aoi)) =>
              (resp.status = 400 /\ resp.msg = "AOI GeoJSON is required for export.")
        /\ (storage_client = "Client" /\ ~Falsy(req.aoi) /\ (Falsy(req.start) \/ Falsy(req.end))) =>
              (resp.status = 400 /\ resp.msg = "Start and end dates are required.")
        /\ resp.status \in {503, 400} => (eff.created = 0 /\ eff.started = 0)
        /\ resp.body = "task_id" =>
              /\ eff.created = 1 /\ eff.started = 1
              /\ storage_client = "Client"
              /\ req.aoi = "ok" /\ req.start = "ok" /\ req.end = "ok"
        /\ eff.started <= eff.created
        /\ tasks <= served

C10_Witness ==
    /\ req.endpoint = "export"
    /\ resp.body = "task_id"
    /\ eff.started = 1
    /\ tasks = 2

C10_RejectedWitness ==
    /\ req.endpoint = "export"
    /\ storage_client = "Client"
    /\ req.aoi = "absent" /\ req.start = "absent"
    /\ resp.status = 400
    /\ tasks = 1

====
